---- MODULE Spec2Model ----
(***************************************************************************)
(* A model of vineyard's etcd-backed meta service                          *)
(* (src/server/services/etcd_meta_service.{h,cc}): the watch handler, the  *)
(* one-shot and the daemon watch with its backoff/retry loop, the chunked  *)
(* commitUpdates, the requestAll snapshot, and the EtcdLock handle.        *)
(*                                                                         *)
(* Strings are sequences of one-character strings, so that starts_with,    *)
(* erase_head_copy and operator+ are computed as the code computes them.   *)
(***************************************************************************)
EXTENDS Integers, Sequences, FiniteSets, TLC

VARIABLES
  prefix_,          \* EtcdMetaService::prefix_
  meta_sync_lock_,  \* IMetaService::meta_sync_lock_ (set by preStart)
  metaCtx,          \* server_ptr_->GetMetaContext(): FIFO of posted handlers
  updPc,            \* requestUpdates: "idle" | "watching" | "handled"
  updStart,         \* start revision handed to etcd_->watch by requestUpdates
  updResp,          \* the etcd response the one-shot watch resolved to
  updSeen,          \* batches the requestUpdates callback has been run with
  lockPc,           \* requestLock: "idle" | "locking" | "posted" | "held"
  lockResp,         \* the etcd response of etcd_->lock
  released_,        \* EtcdLock::released_ (std::atomic_bool)
  thr,              \* per caller thread: its position inside EtcdLock::Release
  outRev,           \* per caller thread: the `unsigned& rev` it passes to Release
  dtor,             \* ~EtcdLock: its position, and what its load of released_ saw
  unlockCalls,      \* number of etcd_->unlock requests issued for the handle
  unlockResp,       \* the etcd response of the unlock request (NoResp before)
  etcdLockHeld,     \* whether etcd holds the lock for this handle's lock_key
  history,          \* completed Release calls: who, exchange result, status
  lockSeen,         \* what callback_after_locked has been run with
  log,              \* etcd: the event of every revision 1..Len(log)
  etcdUp,           \* etcd: whether the store is reachable
  etcd_proc_,       \* EtcdMetaService::etcd_proc_: an owned etcd child, or none
  watcher_,         \* EtcdMetaService::watcher_ and its subscription
  backoff_timer_,   \* EtcdMetaService::backoff_timer_ and its captured since_rev
  rev_,             \* IMetaService::rev_
  dwPc,             \* daemon watch: "idle" before StartDaemonWatch, then "started"
  stopped,          \* whether a call of Stop has returned
  stopPc,           \* the thread in Stop: "idle"; "terminate" once it has
                    \* cancelled the watcher and is about to end the child;
                    \* "wait" while it waits for the child's exit
  delivered,        \* batches the daemon-watch callback has been run with
  subsCreated,      \* number of etcd::Watcher objects constructed
  watchPosts,       \* number of callbacks the daemon watch has posted
  outages,          \* number of times etcd became unreachable
  changes,          \* commitUpdates: its argument
  offset,           \* commitUpdates: its local `offset`
  commitPc,         \* commitUpdates: "idle" | "loop" | "await" | "async" | "done"
  txns,             \* the transactions handed to etcd_->txn, in order
  kv,               \* etcd: the key-value map the transactions act on
  storeRev,         \* etcd: the revision of kv
  commitSeen,       \* what callback_after_updated has been run with
  allPc,            \* requestAll: "idle" | "listing" | "handled"
  allArg,           \* requestAll: its arguments prefix and base_rev
  allResp,          \* the etcd response of etcd_->ls
  allSeen           \* what the requestAll callback has been run with

cfgVars == <<prefix_, meta_sync_lock_>>
updVars == <<updPc, updStart, updResp, updSeen>>
lockVars == <<lockPc, lockResp, released_, thr, outRev, dtor, unlockCalls,
              unlockResp, etcdLockHeld, history, lockSeen>>
watchVars == <<log, etcdUp, etcd_proc_, watcher_, backoff_timer_, rev_, dwPc,
               stopped, stopPc, delivered, subsCreated, watchPosts,
               outages>>
commitVars == <<changes, offset, commitPc, txns, kv, storeRev, commitSeen>>
allVars == <<allPc, allArg, allResp, allSeen>>

----------------------------------------------------------------------------
(* Strings *)

\* boost::algorithm::starts_with(s, p)
starts_with(s, p) ==
  /\ Len(p) <= Len(s)
  /\ SubSeq(s, 1, Len(p)) = p

\* A faulty strip that takes the "/" after the namespace prefix as well
erase_head_and_slash(s, n) ==
  IF n + 1 >= Len(s) THEN <<>> ELSE SubSeq(s, n + 2, Len(s))

\* boost::algorithm::erase_head_copy(s, n): s without its first n characters
erase_head_copy(s, n) ==
  IF n >= Len(s) THEN <<>> ELSE SubSeq(s, n + 1, Len(s))

Slash == <<"/">>

----------------------------------------------------------------------------
(* Status *)

StatusOK == [code |-> "OK", msg |-> ""]

\* Status::EtcdError(error_code, error_message): OK for an error-free response
EtcdError(error_code, error_message) ==
  IF error_code = 0 THEN StatusOK
  ELSE [code |-> "EtcdError", msg |-> error_message]

\* Status::Invalid(message)
Invalid(message) == [code |-> "Invalid", msg |-> message]

\* etcd::Response::is_ok()
is_ok(resp) == resp.error_code = 0

----------------------------------------------------------------------------
(* Operation records: IMetaService::op_t *)

Put(key, value, rev) == [op |-> "kPut", key |-> key, value |-> value, rev |-> rev]
Del(key, rev) == [op |-> "kDel", key |-> key, value |-> "", rev |-> rev]

----------------------------------------------------------------------------
(* The meta context *)

\* A faulty delivery: the callback is invoked where the response arrived
InvokeInline(ctx, seen, handler) ==
  [ctx |-> ctx, seen |-> Append(seen, handler)]

\* etcd_meta_service.cc:75, 118-119, 147-148, 166-167, 195-198:
\* ctx.post(boost::bind(callback, ...)): the bound callback joins the queue of
\* the context; what the callback has been run with stays as it is
PostCallback(ctx, seen, handler) ==
  [ctx |-> Append(ctx, handler), seen |-> seen]

----------------------------------------------------------------------------
(* EtcdWatchHandler *)

\* Faulty variants of the two filters: no instance-lock filter, and a garbage
\* filter that forgets the "/"
IsFilteredNever(key, filter_prefix) == FALSE
IsGarbageNoSlash(key, prefix) == ~starts_with(key, prefix)

\* etcd_meta_service.cc:45-46: the instance-lock filter
IsFiltered(key, filter_prefix) ==
  /\ filter_prefix # <<>>
  /\ starts_with(key, filter_prefix)

\* etcd_meta_service.cc:50: the garbage filter
IsGarbage(key, prefix) == ~starts_with(key, prefix \o Slash)

\* etcd_meta_service.cc:54-72: the records one event that passed the filters
\* contributes (none for an event type that is neither PUT nor DELETE)
EventOps(event, prefix) ==
  LET op_key == erase_head_copy(event.key, Len(prefix)) IN
  CASE event.type = "PUT" ->
         <<Put(op_key, event.value, event.mod_revision)>>
    [] event.type = "DELETE" ->
         <<Del(op_key, event.mod_revision)>>
    [] OTHER -> <<>>

\* etcd_meta_service.cc:43-73: the loop over resp.events()
RECURSIVE HandlerOps(_, _, _)
HandlerOps(events, prefix, filter_prefix) ==
  IF events = <<>> THEN <<>>
  ELSE LET event == Head(events)
           rest == HandlerOps(Tail(events), prefix, filter_prefix)
       IN IF IsFiltered(event.key, filter_prefix) THEN rest
          ELSE IF IsGarbage(event.key, prefix) THEN rest
          ELSE EventOps(event, prefix) \o rest

\* etcd_meta_service.cc:38-76: what EtcdWatchHandler::operator() posts on ctx_
WatchHandler(resp, prefix, filter_prefix, callback) ==
  [callback |-> callback,
   status |-> EtcdError(resp.error_code, resp.error_message),
   ops |-> HandlerOps(resp.events, prefix, filter_prefix),
   rev |-> resp.index]

\* etcd_meta_service.cc:207-208, 217-218: the handler's filter prefix
FilterPrefix == prefix_ \o meta_sync_lock_

----------------------------------------------------------------------------
(* Inputs of the one-shot watch *)

MaxEvents == 2

Prefixes == { <<"v">>, <<>> }
SyncLock == <<"/", "l">>

EventKeys ==
  { <<"v", "/", "a">>, <<"v", "/", "l", "k">>, <<"v", "a">>, <<>>,
    <<"/", "a">>, <<"/", "l">> }
EventTypes == {"PUT", "DELETE", "OTHER"}
EventValues == {"1", "2"}

\* The events a response may carry: puts with a value, deletes and events of
\* an unknown type without
EventShapes ==
  [key : EventKeys, type : {"PUT"}, value : EventValues]
  \cup [key : EventKeys, type : EventTypes \ {"PUT"}, value : {""}]

\* The batches of at most MaxEvents events
Batches == UNION { [1..n -> EventShapes] : n \in 0..MaxEvents }

\* A batch with its revisions: the i-th event at revision start + i - 1
WithRevisions(batch, start) ==
  [i \in 1..Len(batch) |->
     [key |-> batch[i].key, type |-> batch[i].type, value |-> batch[i].value,
      mod_revision |-> start + i - 1]]

NoResp == [error_code |-> 0, error_message |-> "", index |-> 0, events |-> <<>>]

----------------------------------------------------------------------------
(* requestUpdates: the one-shot watch *)

UpdIdle ==
  /\ updPc = "idle"
  /\ updStart = 0
  /\ updResp = NoResp
  /\ updSeen = <<>>

\* etcd_meta_service.cc:202-206: etcd_->watch(prefix_ + prefix, since_rev + 1)
RequestUpdates(since_rev) ==
  /\ updPc = "idle"
  /\ updPc' = "watching"
  /\ updStart' = since_rev + 1
  /\ UNCHANGED <<updResp, updSeen, metaCtx>>

\* etcd_meta_service.cc:207-208 with :34-76: the watch resolves to one response
\* and the continuation, an EtcdWatchHandler, posts the callback
UpdatesResponse(resp) ==
  /\ updPc = "watching"
  /\ updPc' = "handled"
  /\ updResp' = resp
  /\ LET p == PostCallback(metaCtx, updSeen,
                WatchHandler(resp, prefix_, FilterPrefix, "updates"))
     IN metaCtx' = p.ctx /\ updSeen' = p.seen
  /\ UNCHANGED updStart

\* The meta context runs the posted requestUpdates callback
RunUpdatesCallback ==
  /\ metaCtx # <<>>
  /\ Head(metaCtx).callback = "updates"
  /\ updSeen' = Append(updSeen, Head(metaCtx))
  /\ metaCtx' = Tail(metaCtx)
  /\ UNCHANGED <<updPc, updStart, updResp>>

\* The responses etcd may resolve the one-shot watch to
UpdatesResponses ==
  { [error_code |-> 0, error_message |-> "",
     index |-> updStart + Len(b),
     events |-> WithRevisions(b, updStart)] : b \in Batches }
  \cup { [error_code |-> 14, error_message |-> "unavailable",
          index |-> 0, events |-> <<>>] }

----------------------------------------------------------------------------
(* requestLock and EtcdLock *)

NumThreads == 2        \* caller threads that may call Release on the handle
MaxReleaseCalls == 3   \* explicit Release calls made in one run

Threads == 1..NumThreads
DtorThread == NumThreads + 1   \* the thread that drops the last reference

\* The value a caller's `rev` holds when it calls Release
CallerRev == 7

LockIdle ==
  /\ lockPc = "idle"
  /\ lockResp = NoResp
  /\ released_ = FALSE
  /\ thr = [t \in Threads |-> [pc |-> "idle", old |-> FALSE]]
  /\ outRev = [t \in Threads \cup {DtorThread} |->
                 IF t = DtorThread THEN 0 ELSE CallerRev]
  /\ dtor = [pc |-> "none", saw |-> FALSE, old |-> FALSE]
  /\ unlockCalls = 0
  /\ unlockResp = NoResp
  /\ etcdLockHeld = FALSE
  /\ history = <<>>
  /\ lockSeen = <<>>

\* A faulty exchange: the flag is read but not set
ExchangeLoadOnly(flag, value) == [old |-> flag, new |-> flag]

\* etcd_meta_service.h:72: released_.exchange(true), one atomic step
Exchange(flag, value) == [old |-> flag, new |-> value]

\* A faulty guard: every Release runs the closure
ReleaseUnlocksAlways(old) == TRUE

\* etcd_meta_service.h:72-78: the branch Release takes on the exchanged value
ReleaseUnlocks(old) == ~old

\* A faulty closure: it returns the status it was handed
UnlockClosureStatusIn(status, rev, unlock_resp) ==
  [rev |-> IF is_ok(unlock_resp) THEN unlock_resp.index ELSE rev,
   status |-> status]

\* A faulty closure: it writes the revision whatever the response says
UnlockClosureRevAlways(status, rev, unlock_resp) ==
  [rev |-> unlock_resp.index,
   status |-> EtcdError(unlock_resp.error_code, unlock_resp.error_message)]

\* etcd_meta_service.cc:98-114: the release closure, given etcd's response to
\* the unlock request it issues
UnlockClosure(status, rev, unlock_resp) ==
  [rev |-> IF is_ok(unlock_resp) THEN unlock_resp.index ELSE rev,
   status |-> EtcdError(unlock_resp.error_code, unlock_resp.error_message)]

\* The responses etcd may give to etcd_->lock and to etcd_->unlock
LockResponses ==
  { [error_code |-> 0, error_message |-> "", index |-> 1, lock_key |-> "key"],
    [error_code |-> 14, error_message |-> "unavailable", index |-> 0,
     lock_key |-> ""] }
UnlockResponses ==
  { [error_code |-> 0, error_message |-> "", index |-> 2, events |-> <<>>],
    [error_code |-> 14, error_message |-> "unavailable", index |-> 0,
     events |-> <<>>] }

\* etcd_meta_service.cc:78-89: etcd_->lock(prefix_ + lock_name)
RequestLock ==
  /\ lockPc = "idle"
  /\ lockPc' = "locking"
  /\ UNCHANGED <<lockResp, released_, thr, outRev, dtor, unlockCalls,
                 unlockResp, etcdLockHeld, history, metaCtx, lockSeen>>

\* etcd_meta_service.cc:90-120: the continuation builds the handle, whatever
\* the response says, and posts the callback
LockResponse(resp) ==
  /\ lockPc = "locking"
  /\ lockPc' = "posted"
  /\ lockResp' = resp
  /\ released_' = FALSE
  /\ etcdLockHeld' = is_ok(resp)
  /\ LET p == PostCallback(metaCtx, lockSeen,
                [callback |-> "lock",
                 status |-> EtcdError(resp.error_code, resp.error_message),
                 ops |-> <<>>, rev |-> resp.index])
     IN metaCtx' = p.ctx /\ lockSeen' = p.seen
  /\ UNCHANGED <<thr, outRev, dtor, unlockCalls, unlockResp, history>>

\* The meta context runs callback_after_locked: the caller owns the handle
RunLockCallback ==
  /\ metaCtx # <<>>
  /\ Head(metaCtx).callback = "lock"
  /\ lockPc = "posted"
  /\ lockPc' = "held"
  /\ lockSeen' = Append(lockSeen, Head(metaCtx))
  /\ metaCtx' = Tail(metaCtx)
  /\ UNCHANGED <<lockResp, released_, thr, outRev, dtor, unlockCalls,
                 unlockResp, etcdLockHeld, history>>

ExplicitCalls ==
  Cardinality({i \in 1..Len(history) : history[i].who # DtorThread})
  + Cardinality({t \in Threads : thr[t].pc # "idle"})

\* etcd_meta_service.h:71-78 with cc:98-106: a caller enters Release; the
\* exchange decides whether this call returns Invalid at once or runs the
\* closure, which issues etcd_->unlock(lock_key) and blocks in .get(). The
\* exchange and the request are one step: in between the thread touches
\* nothing that another thread reads
ReleaseEnter(t) ==
  /\ lockPc = "held"
  /\ dtor.pc # "destroyed"
  /\ thr[t].pc = "idle"
  /\ ExplicitCalls < MaxReleaseCalls
  /\ LET x == Exchange(released_, TRUE) IN
     /\ released_' = x.new
     /\ IF ReleaseUnlocks(x.old)
        THEN /\ thr' = [thr EXCEPT ![t] = [pc |-> "callback", old |-> x.old]]
             /\ unlockCalls' = unlockCalls + 1
             /\ history' = history
        ELSE /\ thr' = thr
             /\ unlockCalls' = unlockCalls
             /\ history' = Append(history,
                  [who |-> t, old |-> x.old, requests |-> 0,
                   status |-> Invalid("double unlock")])
  /\ UNCHANGED <<lockPc, lockResp, outRev, dtor, unlockResp, etcdLockHeld,
                 metaCtx, lockSeen>>

\* etcd_meta_service.cc:106-113 with h:73-74: etcd answers the unlock request
\* the closure is waiting on; the closure sets rev and returns its status
ReleaseCallback(t, resp) ==
  /\ thr[t].pc = "callback"
  /\ LET r == UnlockClosure(StatusOK, outRev[t], resp) IN
     /\ outRev' = [outRev EXCEPT ![t] = r.rev]
     /\ history' = Append(history,
          [who |-> t, old |-> thr[t].old, requests |-> 1, status |-> r.status])
  /\ thr' = [thr EXCEPT ![t] = [pc |-> "idle", old |-> FALSE]]
  /\ unlockResp' = resp
  /\ etcdLockHeld' = (etcdLockHeld /\ ~is_ok(resp))
  /\ UNCHANGED <<lockPc, lockResp, released_, dtor, unlockCalls, metaCtx,
                 lockSeen>>

\* etcd_meta_service.h:80-81: the last reference is dropped; the destructor
\* loads released_
DtorLoad ==
  /\ lockPc = "held"
  /\ dtor.pc = "none"
  /\ dtor' = [pc |-> IF released_ THEN "destroyed" ELSE "release",
              saw |-> ~released_, old |-> FALSE]
  /\ UNCHANGED <<lockPc, lockResp, released_, thr, outRev, unlockCalls,
                 unlockResp, etcdLockHeld, history, metaCtx, lockSeen>>

\* etcd_meta_service.h:82-84 with h:71-78 and cc:98-106: the destructor calls
\* Release, whose closure issues the unlock request and blocks in .get()
DtorRelease ==
  /\ dtor.pc = "release"
  /\ LET x == Exchange(released_, TRUE) IN
     /\ released_' = x.new
     /\ IF ReleaseUnlocks(x.old)
        THEN /\ dtor' = [dtor EXCEPT !.pc = "callback", !.old = x.old]
             /\ unlockCalls' = unlockCalls + 1
             /\ history' = history
        ELSE /\ dtor' = [dtor EXCEPT !.pc = "destroyed"]
             /\ unlockCalls' = unlockCalls
             /\ history' = Append(history,
                  [who |-> DtorThread, old |-> x.old, requests |-> 0,
                   status |-> Invalid("double unlock")])
  /\ UNCHANGED <<lockPc, lockResp, thr, outRev, unlockResp, etcdLockHeld,
                 metaCtx, lockSeen>>

\* etcd_meta_service.cc:106-113 with h:84: etcd answers the unlock request of
\* the destructor's Release; the status and the revision are discarded
DtorCallback(resp) ==
  /\ dtor.pc = "callback"
  /\ LET r == UnlockClosure(StatusOK, 0, resp) IN
     /\ outRev' = [outRev EXCEPT ![DtorThread] = r.rev]
     /\ history' = Append(history,
          [who |-> DtorThread, old |-> dtor.old, requests |-> 1,
           status |-> r.status])
  /\ dtor' = [dtor EXCEPT !.pc = "destroyed"]
  /\ unlockResp' = resp
  /\ etcdLockHeld' = (etcdLockHeld /\ ~is_ok(resp))
  /\ UNCHANGED <<lockPc, lockResp, released_, thr, unlockCalls, metaCtx,
                 lockSeen>>

----------------------------------------------------------------------------
(* The daemon watch: startDaemonWatch, retryDaeminWatch, Stop *)

MaxRev == 2        \* revisions etcd assigns in one run
MaxOutages == 1    \* times etcd becomes unreachable in one run

NoWatcher == [exists |-> FALSE, live |-> FALSE, next |-> 0]
NoTimer == [armed |-> FALSE, since_rev |-> 0]

\* The events written to etcd while the daemon watch runs: a put under the
\* namespace and a put in the instance-lock subtree
WatchEventKinds ==
  { [key |-> prefix_ \o <<"/", "a">>, type |-> "PUT", value |-> "1"],
    [key |-> prefix_ \o meta_sync_lock_ \o <<"k">>, type |-> "PUT",
     value |-> "1"] }

WatchIdle ==
  /\ log = <<>>
  /\ etcdUp = TRUE
  /\ watcher_ = NoWatcher
  /\ backoff_timer_ = NoTimer
  /\ rev_ = 0
  /\ dwPc = "idle"
  /\ stopped = FALSE
  /\ stopPc = "idle"
  /\ delivered = <<>>
  /\ subsCreated = 0
  /\ watchPosts = 0
  /\ outages = 0

\* etcd: a client commits a mutation at the next revision
StoreWrite(kind) ==
  /\ etcdUp
  /\ Len(log) < MaxRev
  /\ log' = Append(log, [key |-> kind.key, type |-> kind.type,
                         value |-> kind.value, mod_revision |-> Len(log) + 1])
  /\ UNCHANGED <<stopPc, etcdUp, etcd_proc_, watcher_, backoff_timer_, rev_, dwPc,
                 stopped, delivered, subsCreated, watchPosts, outages, metaCtx>>

\* etcd becomes unreachable (a restart, a network partition)
EtcdDown ==
  /\ etcdUp
  /\ outages < MaxOutages
  /\ etcdUp' = FALSE
  /\ outages' = outages + 1
  /\ UNCHANGED <<stopPc, log, etcd_proc_, watcher_, backoff_timer_, rev_, dwPc,
                 stopped, delivered, subsCreated, watchPosts, metaCtx>>

\* etcd becomes reachable again; an owned child that Stop terminated does not
EtcdBack ==
  /\ ~etcdUp
  /\ ~(etcd_proc_ /\ (stopped \/ stopPc = "wait"))
  /\ etcdUp' = TRUE
  /\ UNCHANGED <<stopPc, log, etcd_proc_, watcher_, backoff_timer_, rev_, dwPc,
                 stopped, delivered, subsCreated, watchPosts, outages, metaCtx>>

\* A faulty resumption point: the captured revision itself
WatchStartInclusive(since_rev) == since_rev

\* etcd_meta_service.cc:216: the start revision of a new etcd::Watcher
WatchStart(since_rev) == since_rev + 1

\* A faulty retry that gives up: no timer is armed
retryNever(since_rev) == [armed |-> FALSE, since_rev |-> since_rev]

\* etcd_meta_service.cc:232-246: retryDaeminWatch arms a fresh backoff timer
\* whose handler holds since_rev
retryDaeminWatch(since_rev) == [armed |-> TRUE, since_rev |-> since_rev]

\* A faulty start: the retry is armed whether or not the watcher was built
StartDaemonWatchAndRetry(since_rev) ==
  /\ backoff_timer_' = retryDaeminWatch(since_rev)
  /\ IF etcdUp
     THEN /\ watcher_' = [exists |-> TRUE, live |-> TRUE,
                          next |-> WatchStart(since_rev)]
          /\ subsCreated' = subsCreated + 1
     ELSE UNCHANGED <<watcher_, subsCreated>>

\* etcd_meta_service.cc:211-230: startDaemonWatch. Constructing the watcher
\* throws when etcd is unreachable, and the catch arms the backoff timer
StartDaemonWatchBody(since_rev) ==
  IF etcdUp
  THEN /\ watcher_' = [exists |-> TRUE, live |-> TRUE,
                       next |-> WatchStart(since_rev)]
       /\ subsCreated' = subsCreated + 1
       /\ backoff_timer_' = NoTimer
  ELSE /\ backoff_timer_' = retryDaeminWatch(since_rev)
       /\ UNCHANGED <<watcher_, subsCreated>>

\* The host starts the daemon watch from its current revision
StartDaemonWatch ==
  /\ dwPc = "idle"
  /\ ~stopped
  /\ dwPc' = "started"
  /\ StartDaemonWatchBody(rev_)
  /\ UNCHANGED <<stopPc, log, etcdUp, etcd_proc_, rev_, stopped, delivered,
                 watchPosts, outages, metaCtx>>

\* The events of revisions from..to
EventsBetween(from, to) == SubSeq(log, from, to)

\* etcd_meta_service.cc:217-218 with :38-76: the watcher's thread receives the
\* events up to revision `to` and its EtcdWatchHandler posts the callback
WatchDeliver(to) ==
  /\ watcher_.live
  /\ etcdUp
  /\ watcher_.next <= to
  /\ to <= Len(log)
  /\ LET p == PostCallback(metaCtx, <<>>,
                WatchHandler([error_code |-> 0, error_message |-> "",
                              index |-> Len(log),
                              events |-> EventsBetween(watcher_.next, to)],
                             prefix_, FilterPrefix, "daemon"))
     IN /\ metaCtx' = p.ctx
        /\ delivered' = delivered \o [i \in 1..Len(p.seen) |-> p.seen[i].ops]
  /\ watcher_' = [watcher_ EXCEPT !.next = to + 1]
  /\ watchPosts' = watchPosts + 1
  /\ UNCHANGED <<stopPc, log, etcdUp, etcd_proc_, backoff_timer_, rev_, dwPc,
                 stopped, subsCreated, outages>>

\* etcd_meta_service.cc:220-225: the watch ends without having been cancelled;
\* the Wait callback, on the watcher's thread, reads rev_ and arms the timer
WatchTerminate ==
  /\ watcher_.live
  /\ ~etcdUp
  /\ watcher_' = [watcher_ EXCEPT !.live = FALSE]
  /\ backoff_timer_' = retryDaeminWatch(rev_)
  /\ UNCHANGED <<stopPc, log, etcdUp, etcd_proc_, rev_, dwPc, stopped, delivered,
                 subsCreated, watchPosts, outages, metaCtx>>

\* etcd_meta_service.cc:237-245: the backoff timer fires on the meta context
\* and its handler calls startDaemonWatch with the captured since_rev
TimerFire ==
  /\ backoff_timer_.armed
  /\ StartDaemonWatchBody(backoff_timer_.since_rev)
  /\ UNCHANGED <<stopPc, log, etcdUp, etcd_proc_, rev_, dwPc, stopped, delivered,
                 watchPosts, outages, metaCtx>>

\* The revision a batch leaves in rev_: that of its last operation record
BatchRev(ops, rev) == IF ops = <<>> THEN rev ELSE ops[Len(ops)].rev

\* The meta context runs the daemon-watch callback: the batch reaches the
\* caller and rev_ advances to the last observed event's revision
RunDaemonCallback ==
  /\ metaCtx # <<>>
  /\ Head(metaCtx).callback = "daemon"
  /\ delivered' = Append(delivered, Head(metaCtx).ops)
  /\ rev_' = BatchRev(Head(metaCtx).ops, rev_)
  /\ metaCtx' = Tail(metaCtx)
  /\ UNCHANGED <<stopPc, log, etcdUp, etcd_proc_, watcher_, backoff_timer_, dwPc,
                 stopped, subsCreated, watchPosts, outages>>

\* Whether Stop has been called: a call is under way or has returned
StopCalled == stopped \/ stopPc # "idle"

\* etcd_meta_service.h:127-132: Stop, each time it is called, cancels the
\* watcher, if there is one; the cancelled watch's Wait callback returns at
\* once (cc:221-223). Without an owned etcd child Stop returns here. The
\* backoff timer is left as it is.
StopCancel ==
  /\ stopPc = "idle"
  /\ watcher_' = IF watcher_.exists THEN [watcher_ EXCEPT !.live = FALSE]
                 ELSE watcher_
  /\ stopPc' = IF etcd_proc_ THEN "terminate" ELSE "idle"
  /\ stopped' = IF etcd_proc_ THEN stopped ELSE TRUE
  /\ UNCHANGED <<log, etcdUp, etcd_proc_, backoff_timer_, rev_, dwPc,
                 delivered, subsCreated, watchPosts, outages, metaCtx>>

\* etcd_meta_service.h:133-136: Stop terminates the owned etcd child; the
\* meta context may have run handlers since the watcher was cancelled
StopTerminate ==
  /\ stopPc = "terminate"
  /\ etcdUp' = FALSE
  /\ stopPc' = "wait"
  /\ UNCHANGED <<log, etcd_proc_, watcher_, backoff_timer_, rev_, dwPc,
                 stopped, delivered, subsCreated, watchPosts, outages,
                 metaCtx>>

\* etcd_meta_service.h:137-138: etcd_proc_->wait returns once the child has
\* exited, and Stop returns; the watch thread and the meta context have gone
\* on in the meantime
StopReturn ==
  /\ stopPc = "wait"
  /\ stopPc' = "idle"
  /\ stopped' = TRUE
  /\ UNCHANGED <<log, etcdUp, etcd_proc_, watcher_, backoff_timer_, rev_,
                 dwPc, delivered, subsCreated, watchPosts, outages, metaCtx>>

----------------------------------------------------------------------------
(* commitUpdates *)

ChunkSize == 127    \* etcd_meta_service.cc:132,134,144
MaxChanges == 300   \* longest change list committed
MaxSeed == 1        \* change lists of one length that are tried

\* The decimal digits of n, as a string
RECURSIVE Digits(_)
Digits(n) ==
  LET d == <<"0", "1", "2", "3", "4", "5", "6", "7", "8", "9">>[(n % 10) + 1]
  IN IF n < 10 THEN <<d>> ELSE Digits(n \div 10) \o <<d>>

\* The i-th change of the list tried under `seed`: puts and deletes of keys
\* "/k<j>", no key twice within ChunkSize consecutive changes
GenChange(seed, i) ==
  LET key == <<"/", "k">> \o Digits(i % (ChunkSize + seed)) IN
  IF (i + seed) % 3 = 0 THEN Del(key, 0)
  ELSE Put(key, IF i % 2 = 0 THEN "2" ELSE "1", 0)

GenChanges(seed, n) == [i \in 1..n |-> GenChange(seed, i)]

CommitIdle ==
  /\ changes = <<>>
  /\ offset = 0
  /\ commitPc = "idle"
  /\ txns = <<>>
  /\ kv = <<>>
  /\ storeRev = 0
  /\ commitSeen = <<>>

\* A faulty loop guard: a full last chunk is sent synchronously too
MoreChunksInclusive(off, size) == off + ChunkSize <= size

\* etcd_meta_service.cc:132: the guard of the synchronous loop
MoreChunks(off, size) == off + ChunkSize < size

\* A faulty advance: one change too far
NextOffsetSkip(off) == off + ChunkSize + 1

\* etcd_meta_service.cc:144: offset += 127
NextOffset(off) == off + ChunkSize

\* A faulty transaction setup: the key without the namespace prefix
TxOpBare(op, prefix) ==
  IF op.op = "kPut" THEN <<[type |-> "put", key |-> op.key, value |-> op.value]>>
  ELSE IF op.op = "kDel" THEN <<[type |-> "delete", key |-> op.key, value |-> ""]>>
  ELSE <<>>

\* etcd_meta_service.cc:135-140, 154-159: setup_put / setup_delete of one change
TxOp(op, prefix) ==
  IF op.op = "kPut"
  THEN <<[type |-> "put", key |-> prefix \o op.key, value |-> op.value]>>
  ELSE IF op.op = "kDel"
  THEN <<[type |-> "delete", key |-> prefix \o op.key, value |-> ""]>>
  ELSE <<>>

\* etcd_meta_service.cc:133-141, 152-160: the transaction of changes[from..to-1]
\* (0-based, as in the code), in the order of the list; the range is halved
\* to keep the evaluation shallow
RECURSIVE BuildTx(_, _, _, _)
BuildTx(chs, from, to, prefix) ==
  IF from >= to THEN <<>>
  ELSE IF to = from + 1 THEN TxOp(chs[from + 1], prefix)
  ELSE LET mid == (from + to) \div 2
       IN BuildTx(chs, from, mid, prefix) \o BuildTx(chs, mid, to, prefix)

\* A faulty failure branch: no return, the loop goes on
AfterFailureContinue(off) == [pc |-> "loop", offset |-> NextOffset(off)]

\* etcd_meta_service.cc:145-150: after a failed chunk commitUpdates returns
AfterFailure(off) == [pc |-> "done", offset |-> off]

\* etcd: the map after the operations `ops`, applied in order: a key the
\* transaction touches ends as its last operation on it leaves it
ApplyOps(map, ops) ==
  LET touched == {ops[i].key : i \in 1..Len(ops)}
      last(k) == LET on == {i \in 1..Len(ops) : ops[i].key = k}
                 IN CHOOSE i \in on : \A j \in on : j <= i
      put == {k \in touched : ops[last(k)].type = "put"}
      kept == (DOMAIN map) \ touched
  IN [k \in kept \cup put |->
        IF k \in put THEN ops[last(k)].value ELSE map[k]]

TxnOutcomes == {"ok", "failed"}

\* etcd: its response to a transaction, which either applies all of it at a
\* new revision or none of it
TxnResponse(outcome, ops) ==
  IF outcome = "ok"
  THEN [error_code |-> 0, error_message |-> "",
        index |-> IF ops = <<>> THEN storeRev ELSE storeRev + 1]
  ELSE [error_code |-> 14, error_message |-> "unavailable", index |-> storeRev]

Pending == [error_code |-> -1, error_message |-> "pending", index |-> 0]

EtcdApply(outcome, ops) ==
  IF outcome = "ok"
  THEN /\ kv' = ApplyOps(kv, ops)
       /\ storeRev' = IF ops = <<>> THEN storeRev ELSE storeRev + 1
  ELSE UNCHANGED <<kv, storeRev>>

\* etcd_meta_service.cc:123-131: a caller commits `chs`
CommitUpdates(chs) ==
  /\ commitPc = "idle"
  /\ changes' = chs
  /\ offset' = 0
  /\ commitPc' = "loop"
  /\ UNCHANGED <<txns, kv, storeRev, commitSeen, metaCtx>>

\* etcd_meta_service.cc:132-142: one more synchronous chunk is built and
\* handed to etcd_->txn; .get() blocks for the response
SubmitChunk ==
  /\ commitPc = "loop"
  /\ MoreChunks(offset, Len(changes))
  /\ txns' = Append(txns,
       [ops |-> BuildTx(changes, offset, offset + ChunkSize, prefix_),
        mode |-> "sync", resp |-> Pending])
  /\ commitPc' = "await"
  /\ UNCHANGED <<changes, offset, kv, storeRev, commitSeen, metaCtx>>

\* etcd_meta_service.cc:142-150: the chunk's response arrives: the offset
\* advances, or the failure is posted and commitUpdates returns
ChunkResponse(outcome) ==
  /\ commitPc = "await"
  /\ LET tx == txns[Len(txns)]
         resp == TxnResponse(outcome, tx.ops)
     IN /\ txns' = [txns EXCEPT ![Len(txns)].resp = resp]
        /\ EtcdApply(outcome, tx.ops)
        /\ IF is_ok(resp)
           THEN /\ offset' = NextOffset(offset)
                /\ commitPc' = "loop"
                /\ UNCHANGED <<metaCtx, commitSeen>>
           ELSE /\ offset' = AfterFailure(offset).offset
                /\ commitPc' = AfterFailure(offset).pc
                /\ LET p == PostCallback(metaCtx, commitSeen,
                       [callback |-> "commit",
                        status |-> EtcdError(resp.error_code,
                                             resp.error_message),
                        ops |-> <<>>, rev |-> resp.index])
                   IN metaCtx' = p.ctx /\ commitSeen' = p.seen
  /\ UNCHANGED changes

\* etcd_meta_service.cc:152-161: the rest of the list is handed to etcd_->txn
\* and commitUpdates returns; .then() registers the continuation
SubmitLast ==
  /\ commitPc = "loop"
  /\ ~MoreChunks(offset, Len(changes))
  /\ txns' = Append(txns,
       [ops |-> BuildTx(changes, offset, Len(changes), prefix_),
        mode |-> "async", resp |-> Pending])
  /\ commitPc' = "async"
  /\ UNCHANGED <<changes, offset, kv, storeRev, commitSeen, metaCtx>>

\* etcd_meta_service.cc:161-169: the last transaction's response arrives and
\* its continuation posts the callback
LastResponse(outcome) ==
  /\ commitPc = "async"
  /\ LET tx == txns[Len(txns)]
         resp == TxnResponse(outcome, tx.ops)
     IN /\ txns' = [txns EXCEPT ![Len(txns)].resp = resp]
        /\ EtcdApply(outcome, tx.ops)
        /\ LET p == PostCallback(metaCtx, commitSeen,
               [callback |-> "commit",
                status |-> EtcdError(resp.error_code, resp.error_message),
                ops |-> <<>>, rev |-> resp.index])
           IN metaCtx' = p.ctx /\ commitSeen' = p.seen
  /\ commitPc' = "done"
  /\ UNCHANGED <<changes, offset>>

\* The meta context runs callback_after_updated
RunCommitCallback ==
  /\ metaCtx # <<>>
  /\ Head(metaCtx).callback = "commit"
  /\ commitSeen' = Append(commitSeen, Head(metaCtx))
  /\ metaCtx' = Tail(metaCtx)
  /\ UNCHANGED <<changes, offset, commitPc, txns, kv, storeRev>>

----------------------------------------------------------------------------
(* requestAll: the snapshot *)

NoListing == [error_code |-> 0, error_message |-> "", index |-> 0,
              keys |-> <<>>, values |-> <<>>]
NoArg == [prefix |-> <<>>, base_rev |-> 0]

AllIdle ==
  /\ allPc = "idle"
  /\ allArg = NoArg
  /\ allResp = NoListing
  /\ allSeen = <<>>

\* The op field a record of std::vector<op_t>(n) may hold: op_t gives it no
\* initial value of its own
DefaultOpKinds == {"kPut", "kDel"}

\* A record that std::vector<op_t>(n) creates: empty key and value
DefaultOp(kind) == [op |-> kind, key |-> <<>>, value |-> "", rev |-> 0]

\* etcd_meta_service.cc:180: std::vector<op_t> ops(resp.keys().size())
InitialOps(n, dflt) == [i \in 1..n |-> dflt]

\* etcd_meta_service.cc:181-194: the records the loop over resp.keys()
\* appends with emplace_back, in the order of the keys; the list is halved to
\* keep the evaluation shallow
RECURSIVE AppendedOps(_, _, _, _)
AppendedOps(keys, values, prefix, index) ==
  IF keys = <<>> THEN <<>>
  ELSE IF Len(keys) = 1
  THEN LET key == keys[1]
       IN IF key = <<>> THEN <<>>
          ELSE IF ~starts_with(key, prefix \o Slash) THEN <<>>
          ELSE <<Put(erase_head_copy(key, Len(prefix)), values[1], index)>>
  ELSE LET mid == Len(keys) \div 2
           n == Len(keys)
       IN AppendedOps(SubSeq(keys, 1, mid), SubSeq(values, 1, mid),
                      prefix, index)
          \o AppendedOps(SubSeq(keys, mid + 1, n), SubSeq(values, mid + 1, n),
                         prefix, index)

\* etcd_meta_service.cc:180-194: the list requestAll hands to its callback
AllOps(resp, prefix, dflt) ==
  InitialOps(Len(resp.keys), dflt)
  \o AppendedOps(resp.keys, resp.values, prefix, resp.index)

\* A set as a sequence, in some fixed order
RECURSIVE SetToSeq(_)
SetToSeq(S) ==
  IF S = {} THEN <<>>
  ELSE LET x == CHOOSE y \in S : TRUE IN <<x>> \o SetToSeq(S \ {x})

\* etcd: its response to ls(key): every key that starts with `key`, with its
\* value, at the store's revision
LsResponse(outcome, key) ==
  IF outcome = "ok"
  THEN LET keys == SetToSeq({k \in DOMAIN kv : starts_with(k, key)}) IN
       [error_code |-> 0, error_message |-> "", index |-> storeRev,
        keys |-> keys, values |-> [i \in 1..Len(keys) |-> kv[keys[i]]]]
  ELSE [error_code |-> 14, error_message |-> "unavailable", index |-> 0,
        keys |-> <<>>, values |-> <<>>]

\* etcd_meta_service.cc:172-177: etcd_->ls(prefix_ + prefix)
RequestAll(prefix, base_rev) ==
  /\ allPc = "idle"
  /\ allPc' = "listing"
  /\ allArg' = [prefix |-> prefix, base_rev |-> base_rev]
  /\ UNCHANGED <<allResp, allSeen, metaCtx>>

\* etcd_meta_service.cc:177-199: the listing arrives and its continuation
\* posts the callback
AllResponse(outcome, dflt) ==
  /\ allPc = "listing"
  /\ LET resp == LsResponse(outcome, prefix_ \o allArg.prefix) IN
       /\ allResp' = resp
       /\ LET p == PostCallback(metaCtx, allSeen,
              [callback |-> "all",
               status |-> EtcdError(resp.error_code, resp.error_message),
               ops |-> AllOps(resp, prefix_, dflt),
               rev |-> resp.index])
          IN metaCtx' = p.ctx /\ allSeen' = p.seen
  /\ allPc' = "handled"
  /\ UNCHANGED allArg

\* The meta context runs the posted requestAll callback
RunAllCallback ==
  /\ metaCtx # <<>>
  /\ Head(metaCtx).callback = "all"
  /\ allSeen' = Append(allSeen, Head(metaCtx))
  /\ metaCtx' = Tail(metaCtx)
  /\ UNCHANGED <<allPc, allArg, allResp>>

\* Inputs of the snapshot: the keys etcd may hold at the start, the prefixes
\* asked for, and the keys and values of a commit of one put
StoreKeys == { <<"v", "/", "a">>, <<"v", "a">>, <<"/", "a">> }
AllPrefixes == { <<>>, <<"/", "a">> }
PutKeys == { <<"/", "a">>, <<"a">>, <<"/", "b">> }
PutValues == {"1", "2"}

\* The revisions a caller of requestAll may know of: none, or that of a commit
\* whose callback it has seen
KnownRevs == {0} \cup {commitSeen[i].rev : i \in 1..Len(commitSeen)}

----------------------------------------------------------------------------
(* Specifications *)

vars == <<cfgVars, metaCtx, updVars, lockVars, watchVars, commitVars, allVars>>

\* The one-shot watch on its own
InitUpdates ==
  /\ prefix_ \in Prefixes
  /\ meta_sync_lock_ = SyncLock
  /\ metaCtx = <<>>
  /\ UpdIdle /\ LockIdle /\ WatchIdle /\ CommitIdle /\ AllIdle
  /\ etcd_proc_ = FALSE

NextUpdates ==
  \/ /\ RequestUpdates(0)
     /\ UNCHANGED <<cfgVars, lockVars, watchVars, commitVars, allVars>>
  \/ /\ updPc = "watching"
     /\ \E resp \in UpdatesResponses : UpdatesResponse(resp)
     /\ UNCHANGED <<cfgVars, lockVars, watchVars, commitVars, allVars>>
  \/ /\ RunUpdatesCallback
     /\ UNCHANGED <<cfgVars, lockVars, watchVars, commitVars, allVars>>

SpecUpdates == InitUpdates /\ [][NextUpdates]_vars

\* One lock handle, its caller threads and its destructor
InitLock ==
  /\ prefix_ = <<"v">>
  /\ meta_sync_lock_ = SyncLock
  /\ metaCtx = <<>>
  /\ UpdIdle /\ LockIdle /\ WatchIdle /\ CommitIdle /\ AllIdle
  /\ etcd_proc_ = FALSE

NextLock ==
  \/ /\ RequestLock
     /\ UNCHANGED <<cfgVars, updVars, watchVars, commitVars, allVars>>
  \/ /\ \E resp \in LockResponses : LockResponse(resp)
     /\ UNCHANGED <<cfgVars, updVars, watchVars, commitVars, allVars>>
  \/ /\ RunLockCallback
     /\ UNCHANGED <<cfgVars, updVars, watchVars, commitVars, allVars>>
  \/ /\ \E t \in Threads : ReleaseEnter(t)
     /\ UNCHANGED <<cfgVars, updVars, watchVars, commitVars, allVars>>
  \/ /\ \E t \in Threads : \E resp \in UnlockResponses : ReleaseCallback(t, resp)
     /\ UNCHANGED <<cfgVars, updVars, watchVars, commitVars, allVars>>
  \/ /\ DtorLoad
     /\ UNCHANGED <<cfgVars, updVars, watchVars, commitVars, allVars>>
  \/ /\ DtorRelease
     /\ UNCHANGED <<cfgVars, updVars, watchVars, commitVars, allVars>>
  \/ /\ \E resp \in UnlockResponses : DtorCallback(resp)
     /\ UNCHANGED <<cfgVars, updVars, watchVars, commitVars, allVars>>

SpecLock == InitLock /\ [][NextLock]_vars

\* The daemon watch, etcd and the meta context
InitWatch ==
  /\ prefix_ = <<"v">>
  /\ meta_sync_lock_ = SyncLock
  /\ metaCtx = <<>>
  /\ UpdIdle /\ LockIdle /\ WatchIdle /\ CommitIdle /\ AllIdle
  /\ etcd_proc_ \in BOOLEAN

NextWatch ==
  \/ /\ \E kind \in WatchEventKinds : StoreWrite(kind)
     /\ UNCHANGED <<cfgVars, updVars, lockVars, commitVars, allVars>>
  \/ /\ EtcdDown
     /\ UNCHANGED <<cfgVars, updVars, lockVars, commitVars, allVars>>
  \/ /\ EtcdBack
     /\ UNCHANGED <<cfgVars, updVars, lockVars, commitVars, allVars>>
  \/ /\ StartDaemonWatch
     /\ UNCHANGED <<cfgVars, updVars, lockVars, commitVars, allVars>>
  \/ /\ \E to \in 1..MaxRev : WatchDeliver(to)
     /\ UNCHANGED <<cfgVars, updVars, lockVars, commitVars, allVars>>
  \/ /\ WatchTerminate
     /\ UNCHANGED <<cfgVars, updVars, lockVars, commitVars, allVars>>
  \/ /\ TimerFire
     /\ UNCHANGED <<cfgVars, updVars, lockVars, commitVars, allVars>>
  \/ /\ RunDaemonCallback
     /\ UNCHANGED <<cfgVars, updVars, lockVars, commitVars, allVars>>
  \/ /\ StopCancel
     /\ UNCHANGED <<cfgVars, updVars, lockVars, commitVars, allVars>>
  \/ /\ StopTerminate
     /\ UNCHANGED <<cfgVars, updVars, lockVars, commitVars, allVars>>
  \/ /\ StopReturn
     /\ UNCHANGED <<cfgVars, updVars, lockVars, commitVars, allVars>>

SpecWatch == InitWatch /\ [][NextWatch]_vars

\* The daemon watch with a meta context that keeps running: a backoff timer
\* that stays pending expires and its handler runs
TimerFires ==
  /\ TimerFire
  /\ UNCHANGED <<cfgVars, updVars, lockVars, commitVars, allVars>>

SpecWatchFair == SpecWatch /\ WF_vars(TimerFires)

\* One commitUpdates call against etcd
InitCommit ==
  /\ prefix_ \in Prefixes
  /\ meta_sync_lock_ = SyncLock
  /\ metaCtx = <<>>
  /\ UpdIdle /\ LockIdle /\ WatchIdle /\ CommitIdle /\ AllIdle
  /\ etcd_proc_ = FALSE

NextCommit ==
  \/ /\ \E n \in 0..MaxChanges : \E seed \in 0..MaxSeed :
          CommitUpdates(GenChanges(seed, n))
     /\ UNCHANGED <<cfgVars, updVars, lockVars, watchVars, allVars>>
  \/ /\ SubmitChunk
     /\ UNCHANGED <<cfgVars, updVars, lockVars, watchVars, allVars>>
  \/ /\ \E outcome \in TxnOutcomes : ChunkResponse(outcome)
     /\ UNCHANGED <<cfgVars, updVars, lockVars, watchVars, allVars>>
  \/ /\ SubmitLast
     /\ UNCHANGED <<cfgVars, updVars, lockVars, watchVars, allVars>>
  \/ /\ \E outcome \in TxnOutcomes : LastResponse(outcome)
     /\ UNCHANGED <<cfgVars, updVars, lockVars, watchVars, allVars>>
  \/ /\ RunCommitCallback
     /\ UNCHANGED <<cfgVars, updVars, lockVars, watchVars, allVars>>

SpecCommit == InitCommit /\ [][NextCommit]_vars

\* One requestAll call beside a commit of one put, against a store that
\* holds some keys already
InitAll ==
  /\ prefix_ \in Prefixes
  /\ meta_sync_lock_ = SyncLock
  /\ metaCtx = <<>>
  /\ UpdIdle /\ LockIdle /\ WatchIdle /\ AllIdle
  /\ etcd_proc_ = FALSE
  /\ changes = <<>>
  /\ offset = 0
  /\ commitPc = "idle"
  /\ txns = <<>>
  /\ commitSeen = <<>>
  /\ \E held \in SUBSET StoreKeys :
       /\ kv = [k \in held |-> "1"]
       /\ storeRev = Cardinality(held)

NextAll ==
  \/ /\ \E k \in PutKeys : \E v \in PutValues : CommitUpdates(<<Put(k, v, 0)>>)
     /\ UNCHANGED <<cfgVars, updVars, lockVars, watchVars, allVars>>
  \/ /\ SubmitLast
     /\ UNCHANGED <<cfgVars, updVars, lockVars, watchVars, allVars>>
  \/ /\ \E outcome \in TxnOutcomes : LastResponse(outcome)
     /\ UNCHANGED <<cfgVars, updVars, lockVars, watchVars, allVars>>
  \/ /\ RunCommitCallback
     /\ UNCHANGED <<cfgVars, updVars, lockVars, watchVars, allVars>>
  \/ /\ \E prefix \in AllPrefixes : \E base_rev \in KnownRevs :
          RequestAll(prefix, base_rev)
     /\ UNCHANGED <<cfgVars, updVars, lockVars, watchVars, commitVars>>
  \/ /\ \E outcome \in TxnOutcomes : \E kind \in DefaultOpKinds :
          AllResponse(outcome, DefaultOp(kind))
     /\ UNCHANGED <<cfgVars, updVars, lockVars, watchVars, commitVars>>
  \/ /\ RunAllCallback
     /\ UNCHANGED <<cfgVars, updVars, lockVars, watchVars, commitVars>>

SpecAll == InitAll /\ [][NextAll]_vars

\* The service as a whole: the operations run beside each other, sharing the
\* meta context and the store, from the call to the callback. What happens to
\* a lock handle after its callback is followed under SpecLock, and etcd's
\* outages with the daemon watch's recovery and Stop under SpecWatch.
MaxCalls == 2    \* operations the host starts in one run

\* The operations started so far
Started(pc) == IF pc = "idle" THEN 0 ELSE 1
ServiceCalls ==
  Started(updPc) + Started(lockPc) + Started(dwPc) + Started(commitPc)
  + Started(allPc)

\* The event written to etcd and reported by the watches: a put under the
\* namespace
ServiceEvent ==
  [key |-> prefix_ \o <<"/", "a">>, type |-> "PUT", value |-> "1"]

\* The responses etcd resolves the one-shot watch to: up to MaxEvents such
\* events, or an error
ServiceUpdatesResponses ==
  { [error_code |-> 0, error_message |-> "",
     index |-> updStart + n,
     events |-> WithRevisions([i \in 1..n |-> ServiceEvent], updStart)] :
      n \in 0..MaxEvents }
  \cup { [error_code |-> 14, error_message |-> "unavailable",
          index |-> 0, events |-> <<>>] }

\* The change lists committed: one put, and a list one longer than a chunk
ServiceChanges ==
  { <<Put(<<"/", "a">>, "1", 0)>>, GenChanges(0, ChunkSize + 1) }

InitService ==
  /\ prefix_ \in Prefixes
  /\ meta_sync_lock_ = SyncLock
  /\ metaCtx = <<>>
  /\ UpdIdle /\ LockIdle /\ WatchIdle /\ CommitIdle /\ AllIdle
  /\ etcd_proc_ = FALSE

NextService ==
  \/ /\ ServiceCalls < MaxCalls
     /\ RequestUpdates(0)
     /\ UNCHANGED <<cfgVars, lockVars, watchVars, commitVars, allVars>>
  \/ /\ updPc = "watching"
     /\ \E resp \in ServiceUpdatesResponses : UpdatesResponse(resp)
     /\ UNCHANGED <<cfgVars, lockVars, watchVars, commitVars, allVars>>
  \/ /\ RunUpdatesCallback
     /\ UNCHANGED <<cfgVars, lockVars, watchVars, commitVars, allVars>>
  \/ /\ ServiceCalls < MaxCalls
     /\ RequestLock
     /\ UNCHANGED <<cfgVars, updVars, watchVars, commitVars, allVars>>
  \/ /\ \E resp \in LockResponses : LockResponse(resp)
     /\ UNCHANGED <<cfgVars, updVars, watchVars, commitVars, allVars>>
  \/ /\ RunLockCallback
     /\ UNCHANGED <<cfgVars, updVars, watchVars, commitVars, allVars>>
  \/ /\ StoreWrite(ServiceEvent)
     /\ UNCHANGED <<cfgVars, updVars, lockVars, commitVars, allVars>>
  \/ /\ ServiceCalls < MaxCalls
     /\ StartDaemonWatch
     /\ UNCHANGED <<cfgVars, updVars, lockVars, commitVars, allVars>>
  \/ /\ \E to \in 1..MaxRev : WatchDeliver(to)
     /\ UNCHANGED <<cfgVars, updVars, lockVars, commitVars, allVars>>
  \/ /\ RunDaemonCallback
     /\ UNCHANGED <<cfgVars, updVars, lockVars, commitVars, allVars>>
  \/ /\ ServiceCalls < MaxCalls
     /\ commitPc = "idle"
     /\ \E chs \in ServiceChanges : CommitUpdates(chs)
     /\ UNCHANGED <<cfgVars, updVars, lockVars, watchVars, allVars>>
  \/ /\ SubmitChunk
     /\ UNCHANGED <<cfgVars, updVars, lockVars, watchVars, allVars>>
  \/ /\ \E outcome \in TxnOutcomes : ChunkResponse(outcome)
     /\ UNCHANGED <<cfgVars, updVars, lockVars, watchVars, allVars>>
  \/ /\ SubmitLast
     /\ UNCHANGED <<cfgVars, updVars, lockVars, watchVars, allVars>>
  \/ /\ \E outcome \in TxnOutcomes : LastResponse(outcome)
     /\ UNCHANGED <<cfgVars, updVars, lockVars, watchVars, allVars>>
  \/ /\ RunCommitCallback
     /\ UNCHANGED <<cfgVars, updVars, lockVars, watchVars, allVars>>
  \/ /\ ServiceCalls < MaxCalls
     /\ \E prefix \in AllPrefixes : \E base_rev \in KnownRevs : RequestAll(prefix, base_rev)
     /\ UNCHANGED <<cfgVars, updVars, lockVars, watchVars, commitVars>>
  \/ /\ \E outcome \in TxnOutcomes : \E kind \in DefaultOpKinds : AllResponse(outcome, DefaultOp(kind))
     /\ UNCHANGED <<cfgVars, updVars, lockVars, watchVars, commitVars>>
  \/ /\ RunAllCallback
     /\ UNCHANGED <<cfgVars, updVars, lockVars, watchVars, commitVars>>

SpecService == InitService /\ [][NextService]_vars



----------------------------------------------------------------------------
(* Properties of the lock handle (under SpecLock) *)

\* No Release call and no destructor is under way
LockQuiescent ==
  /\ \A t \in Threads : thr[t].pc = "idle"
  /\ dtor.pc \in {"none", "destroyed"}

\* Release has been called explicitly at least once
ReleaseCalled == ExplicitCalls > 0

\* The Release calls that took the released_ flag and are waiting for etcd's
\* answer to their unlock request
ClosuresRunning ==
  Cardinality({t \in Threads : thr[t].pc = "callback"})
  + (IF dtor.pc = "callback" THEN 1 ELSE 0)

\* The completed Release calls that took the released_ flag
Winners == {i \in 1..Len(history) : ~history[i].old}

\* C1: whatever the interleaving of explicit Release calls and of the
\* destructor, etcd's unlock is requested at most once; it has been requested
\* only if Release was called or the destructor found the handle unreleased;
\* and once the calls have returned it has been requested exactly once if and
\* only if Release was called or the handle was destroyed unreleased.
C1_UnlockExactlyOnce ==
  /\ unlockCalls <= 1
  /\ unlockCalls = 1 => (ReleaseCalled \/ dtor.saw)
  /\ LockQuiescent => (unlockCalls = 1 <=> (ReleaseCalled \/ dtor.saw))

\* C1's case: the destructor found the handle unreleased, lost the race to an
\* explicit Release, a second explicit Release came too, and all have returned
C1_Witness ==
  /\ LockQuiescent
  /\ dtor.saw /\ dtor.pc = "destroyed"
  /\ Len(history) = 3
  /\ \E i \in Winners : history[i].who # DtorThread
  /\ unlockCalls = 1

\* C2: the Release that takes the flag returns the status of etcd's unlock
\* response (OK when the unlock succeeded); every other Release returns
\* Invalid("double unlock"); and unlock requests come from the first alone,
\* whether or not its unlock succeeded.
C2_FirstStatusThenInvalid ==
  /\ \A i \in 1..Len(history) :
       IF ~history[i].old
       THEN /\ history[i].status.code = (IF unlockResp.error_code = 0
                                         THEN "OK" ELSE "EtcdError")
            /\ history[i].status.msg = unlockResp.error_message
       ELSE history[i].status = [code |-> "Invalid", msg |-> "double unlock"]
  /\ Cardinality(Winners) + ClosuresRunning <= 1
  /\ unlockCalls = Cardinality(Winners) + ClosuresRunning

\* C2's case: the first Release's unlock failed and a later explicit Release
\* on the same handle has returned
C2_Witness ==
  \E i, j \in 1..Len(history) :
    /\ i < j
    /\ ~history[i].old /\ history[i].status.code = "EtcdError"
    /\ history[j].old /\ history[j].who # DtorThread
    /\ unlockCalls = 1

----------------------------------------------------------------------------
(* Properties of the daemon watch (under SpecWatch) *)

\* The revisions of the operation records the caller has seen, in order
RECURSIVE SeenRevs(_)
SeenRevs(batches) ==
  IF batches = <<>> THEN <<>>
  ELSE [i \in 1..Len(Head(batches)) |-> Head(batches)[i].rev]
       \o SeenRevs(Tail(batches))

\* The revisions of the namespace's events in etcd, in order: those that are
\* under prefix_ + "/" and outside the instance-lock subtree
NamespaceRevs ==
  LET keep == SelectSeq(log, LAMBDA e :
                /\ Len(e.key) > Len(prefix_)
                /\ SubSeq(e.key, 1, Len(prefix_) + 1) = prefix_ \o <<"/">>
                /\ ~(/\ Len(e.key) >= Len(prefix_ \o meta_sync_lock_)
                     /\ SubSeq(e.key, 1, Len(prefix_ \o meta_sync_lock_))
                          = prefix_ \o meta_sync_lock_))
  IN [i \in 1..Len(keep) |-> keep[i].mod_revision]

IsPrefixOf(s, t) == Len(s) <= Len(t) /\ SubSeq(t, 1, Len(s)) = s

\* C3: once Stop has been called, and has returned, the daemon watch
\* constructs no further watcher and posts no further callback.
C3_QuietAfterStop ==
  [][stopped => (subsCreated' = subsCreated /\ watchPosts' = watchPosts)]_vars

\* C4: across reconnections the caller sees every event of the namespace
\* after the initial since_rev exactly once and in order: what it has seen is
\* at every moment a prefix of the namespace's events, nothing replayed,
\* nothing skipped.
C4_ExactlyOnce == IsPrefixOf(SeenRevs(delivered), NamespaceRevs)

\* C5: every operation record of a delivered batch has a revision at least
\* the largest revision of every batch delivered before it.
C5_RevisionOrder ==
  \A i, j \in 1..Len(delivered) :
    i < j =>
      \A a \in 1..Len(delivered[i]) : \A b \in 1..Len(delivered[j]) :
        delivered[j][b].rev >= delivered[i][a].rev

----------------------------------------------------------------------------
(* Properties of commitUpdates (under SpecCommit) *)

Ceil(n, d) == (n + d - 1) \div d

\* The responses received so far are all successes
NoChunkFailed ==
  \A i \in 1..Len(txns) : txns[i].resp = Pending \/ is_ok(txns[i].resp)

\* Only the last transaction may be unanswered or asynchronous: each one
\* before it was sent synchronously and was answered before the next was sent
EarlierAwaited ==
  \A i \in 1..Len(txns) - 1 :
    txns[i].mode = "sync" /\ txns[i].resp # Pending

\* Every callback posted for the commit, run already or still queued
CommitPosted ==
  commitSeen \o SelectSeq(metaCtx, LAMBDA c : c.callback = "commit")

\* C6, as stated: a commit of N >= 0 changes in which no chunk fails issues
\* exactly ceil(N / 127) transactions.
C6_CeilTransactions ==
  (commitPc = "done" /\ NoChunkFailed) =>
    Len(txns) = Ceil(Len(changes), ChunkSize)

\* C6, amended: a commit of N changes in which no chunk fails issues exactly
\* ceil(N / 127) transactions when N >= 1 and exactly one, empty, transaction
\* when N = 0; each but the last holds 127 changes and was awaited
\* synchronously before the next was sent, the last holds the rest and is
\* asynchronous.
C6_CeilTransactionsOrOne ==
  /\ EarlierAwaited
  /\ (commitPc = "done" /\ NoChunkFailed) =>
       LET n == Len(changes)
           count == IF n = 0 THEN 1 ELSE Ceil(n, ChunkSize)
       IN /\ Len(txns) = count
          /\ \A i \in 1..count - 1 : Len(txns[i].ops) = ChunkSize
          /\ Len(txns[count].ops) = n - ChunkSize * (count - 1)
          /\ txns[count].mode = "async"

\* C6's case: 300 changes went out as transactions of 127, 127 and 46
C6_Witness ==
  /\ commitPc = "done" /\ NoChunkFailed
  /\ Len(changes) = 300
  /\ Len(txns) = 3
  /\ Len(txns[1].ops) = 127 /\ Len(txns[2].ops) = 127 /\ Len(txns[3].ops) = 46

\* C7: a commit of at most 127 changes, the empty list included, issues
\* exactly one transaction, the asynchronous last one.
C7_SingleTransaction ==
  Len(changes) <= ChunkSize =>
    /\ \A i \in 1..Len(txns) : txns[i].mode = "async"
    /\ Len(txns) <= 1
    /\ commitPc \in {"async", "done"} => Len(txns) = 1

\* C7's case: a list of exactly 127 changes has been committed
C7_Witness ==
  /\ commitPc = "done"
  /\ Len(changes) = ChunkSize
  /\ Len(txns) = 1 /\ Len(txns[1].ops) = ChunkSize

\* The synchronous chunks whose response was a failure
FailedChunks ==
  {i \in 1..Len(txns) :
     txns[i].mode = "sync" /\ txns[i].resp # Pending /\ ~is_ok(txns[i].resp)}

\* C8: when a non-final chunk fails it is the last transaction issued, the
\* callback is posted exactly once, with that chunk's error and revision, and
\* etcd holds exactly the writes of the chunks before it.
C8_FailureStopsCommit ==
  \A f \in FailedChunks :
    /\ f = Len(txns)
    /\ commitPc = "done"
    /\ Len(CommitPosted) = 1
    /\ CommitPosted[1].status =
         [code |-> "EtcdError", msg |-> txns[f].resp.error_message]
    /\ CommitPosted[1].rev = txns[f].resp.index
    /\ kv = ApplyOps(<<>>,
                     BuildTx(changes, 0, ChunkSize * (f - 1), prefix_))
    /\ storeRev = f - 1

\* C8's case: the second chunk failed after the first had been applied, and
\* the callback has run
C8_Witness ==
  /\ 2 \in FailedChunks
  /\ DOMAIN kv # {}
  /\ Len(commitSeen) = 1

\* The transaction operation change c stands for
ExpectedTxOp(c) ==
  [type |-> IF c.op = "kPut" THEN "put" ELSE "delete",
   key |-> prefix_ \o c.key,
   value |-> IF c.op = "kPut" THEN c.value ELSE ""]

\* The operations issued so far, in the order of issue
RECURSIVE Issued(_)
Issued(n) == IF n = 0 THEN <<>> ELSE Issued(n - 1) \o txns[n].ops

\* C9: every transaction holds at most 127 operations; the transactions, in
\* the order of issue, spell out the change list, each change as a put or a
\* delete of prefix_ + key (all of the list once the last transaction is
\* issued); and a transaction is issued only after every earlier one has been
\* answered with success.
C9_ChunksInOrder ==
  LET expected == [i \in 1..Len(changes) |-> ExpectedTxOp(changes[i])] IN
  /\ \A i \in 1..Len(txns) : Len(txns[i].ops) <= ChunkSize
  /\ IsPrefixOf(Issued(Len(txns)), expected)
  /\ (Len(txns) > 0 /\ txns[Len(txns)].mode = "async") =>
       Issued(Len(txns)) = expected
  /\ \A i \in 1..Len(txns) - 1 :
       txns[i].resp # Pending /\ is_ok(txns[i].resp)

\* C9's case: 255 changes under a non-empty prefix went out as three
\* transactions, the last of one operation
C9_Witness ==
  /\ commitPc = "done"
  /\ prefix_ # <<>>
  /\ Len(changes) = 2 * ChunkSize + 1
  /\ Len(txns) = 3 /\ Len(txns[3].ops) = 1

----------------------------------------------------------------------------
(* Properties of the watch handler (under SpecUpdates) *)

\* s begins with p
HasPrefix(s, p) == \E n \in 0..Len(s) : SubSeq(s, 1, n) = p

\* The events of the response that the filters must drop
MustDrop(e) ==
  \/ ~HasPrefix(e.key, prefix_ \o <<"/">>)
  \/ HasPrefix(e.key, prefix_ \o meta_sync_lock_)

\* Every callback the one-shot watch has posted, run already or still queued
UpdatesPosted ==
  updSeen \o SelectSeq(metaCtx, LAMBDA c : c.callback = "updates")

\* C10: the batch the handler posts holds no operation record for an event
\* whose key is not under prefix_ + "/" or is under the sync-lock prefix,
\* whatever the event's type (an event is known by its revision).
C10_DroppedEvents ==
  \A c \in 1..Len(UpdatesPosted) :
    \A i \in 1..Len(updResp.events) :
      MustDrop(updResp.events[i]) =>
        \A o \in 1..Len(UpdatesPosted[c].ops) :
          UpdatesPosted[c].ops[o].rev # updResp.events[i].mod_revision

\* C10's case: a batch of a sync-lock PUT and a PUT outside the namespace
\* has been handled and the callback has run with no record
C10_Witness ==
  /\ Len(updSeen) = 1
  /\ Len(updResp.events) = 2
  /\ updResp.events[1].type = "PUT"
  /\ HasPrefix(updResp.events[1].key, prefix_ \o meta_sync_lock_)
  /\ updResp.events[2].type = "PUT"
  /\ ~HasPrefix(updResp.events[2].key, prefix_ \o <<"/">>)
  /\ updSeen[1].ops = <<>>

----------------------------------------------------------------------------
(* Properties of requestAll (under SpecAll) *)

\* Every callback requestAll has posted, run already or still queued
AllPosted ==
  allSeen \o SelectSeq(metaCtx, LAMBDA c : c.callback = "all")

\* The returned keys requestAll must retain: non-empty and under prefix_ + "/"
Retained ==
  {i \in 1..Len(allResp.keys) :
     /\ allResp.keys[i] # <<>>
     /\ HasPrefix(allResp.keys[i], prefix_ \o <<"/">>)}

\* The record of the i-th returned key: the key without the namespace prefix,
\* its value, the revision of the listing
SnapshotPut(i) ==
  [op |-> "kPut",
   key |-> SubSeq(allResp.keys[i], Len(prefix_) + 1, Len(allResp.keys[i])),
   value |-> allResp.values[i],
   rev |-> allResp.index]

\* C11: the list requestAll posts holds exactly one Put record for each
\* retained key and no other record: it is as long as there are retained
\* keys, and every record is the snapshot Put of a retained key.
C11_ExactlyRetainedPuts ==
  \A c \in 1..Len(AllPosted) :
    LET ops == AllPosted[c].ops IN
      /\ Len(ops) = Cardinality(Retained)
      /\ \A i \in Retained : \E o \in 1..Len(ops) : ops[o] = SnapshotPut(i)
      /\ \A o \in 1..Len(ops) : \E i \in Retained : ops[o] = SnapshotPut(i)

\* The round trip's case: a commit of the single put of key k and value v
\* has completed at revision r with an OK status, and a requestAll with
\* prefix "" that was called knowing r has been answered with an OK status
RoundTrip(c) ==
  /\ Len(changes) = 1
  /\ changes[1].op = "kPut"
  /\ Len(commitSeen) = 1
  /\ commitSeen[1].status = StatusOK
  /\ allArg.prefix = <<>>
  /\ allArg.base_rev = commitSeen[1].rev
  /\ AllPosted[c].status = StatusOK

\* The list holds Put(k, v, rev') with rev' >= r
HoldsPut(ops, k, v, r) ==
  \E o \in 1..Len(ops) :
    /\ ops[o].op = "kPut"
    /\ ops[o].key = k
    /\ ops[o].value = v
    /\ ops[o].rev >= r

\* C12, as stated: for every key k and value v, a successful commit of
\* Put(k, v) at revision r followed by requestAll("") yields a list that
\* holds Put(k, v, rev') with rev' >= r.
C12_RoundTrip ==
  \A c \in 1..Len(AllPosted) :
    RoundTrip(c) =>
      HoldsPut(AllPosted[c].ops, changes[1].key, changes[1].value,
               commitSeen[1].rev)

\* C12, amended: the round trip holds for every key k that begins with "/"
\* and every value v.
C12_RoundTripSlashKeys ==
  \A c \in 1..Len(AllPosted) :
    (RoundTrip(c) /\ HasPrefix(changes[1].key, <<"/">>)) =>
      HoldsPut(AllPosted[c].ops, changes[1].key, changes[1].value,
               commitSeen[1].rev)

\* C12's case: under a non-empty namespace prefix, the put of "/a" with a
\* value the store did not hold has come back from the snapshot
C12_Witness ==
  /\ prefix_ = <<"v">>
  /\ <<"v", "/", "a">> \in DOMAIN kv
  /\ Len(allSeen) = 1
  /\ RoundTrip(1)
  /\ changes[1].key = <<"/", "a">>
  /\ changes[1].value = "2"
  /\ HoldsPut(allSeen[1].ops, <<"/", "a">>, "2", commitSeen[1].rev)

----------------------------------------------------------------------------
(* Further properties of the lock handle (under SpecLock) *)

\* The handle is gone: it has been destroyed and every Release call on it has
\* returned, so nothing can issue a request for its lock_key any more
HandleGone ==
  /\ lockPc = "held"
  /\ LockQuiescent
  /\ dtor.pc = "destroyed"

\* C13: for a lock that was acquired, once the handle has been released or
\* destroyed the lock ends up no longer held at etcd, also when the first
\* unlock request returned an error: when the handle is gone, the lock is
\* free.
C13_ReleasedLockIsFree ==
  (is_ok(lockResp) /\ HandleGone) => ~etcdLockHeld

----------------------------------------------------------------------------
(* Properties of the callbacks of all operations (under SpecService) *)

\* A step in which the meta context takes the handler at the head of its
\* queue and runs it
MetaContextRuns(callback) ==
  /\ metaCtx # <<>>
  /\ Head(metaCtx).callback = callback
  /\ metaCtx' = Tail(metaCtx)

\* C14: a callback of requestAll, requestUpdates, the daemon watch,
\* commitUpdates or requestLock runs only in a step of the meta context, with
\* the handler that was posted first: the step in which a response arrives,
\* on a worker thread, runs none.
C14_CallbacksOnMetaContext ==
  [][/\ allSeen' # allSeen =>
          (MetaContextRuns("all") /\ allSeen' = Append(allSeen, Head(metaCtx)))
     /\ updSeen' # updSeen =>
          (MetaContextRuns("updates")
           /\ updSeen' = Append(updSeen, Head(metaCtx)))
     /\ delivered' # delivered =>
          (MetaContextRuns("daemon")
           /\ delivered' = Append(delivered, Head(metaCtx).ops))
     /\ commitSeen' # commitSeen =>
          (MetaContextRuns("commit")
           /\ commitSeen' = Append(commitSeen, Head(metaCtx)))
     /\ lockSeen' # lockSeen =>
          (MetaContextRuns("lock")
           /\ lockSeen' = Append(lockSeen, Head(metaCtx)))]_vars

\* C14's case: a synchronous chunk of a commit failed while a one-shot watch
\* was pending; both callbacks were posted and the meta context has run them
C14_Witness ==
  /\ commitPc = "done"
  /\ FailedChunks # {}
  /\ updPc = "handled"
  /\ metaCtx = <<>>
  /\ Len(commitSeen) = 1
  /\ commitSeen[1].status.code = "EtcdError"
  /\ Len(updSeen) = 1

----------------------------------------------------------------------------
(* Further properties of the daemon watch (under SpecWatch) *)

\* C15: at most one of the watch subscription and the backoff timer is
\* active: no reachable state has both a live subscription and a pending
\* timer, so a timer is pending only while no subscription is live and a
\* subscription is live only while no timer is pending.
C15_SubscriptionOrTimer ==
  /\ ~(watcher_.live /\ backoff_timer_.armed)
  /\ watcher_.live => backoff_timer_ = NoTimer

\* C15's case: a subscription ended uncancelled and the timer is pending
C15_Witness ==
  /\ ~StopCalled
  /\ subsCreated = 1
  /\ watcher_.exists /\ ~watcher_.live
  /\ backoff_timer_.armed

----------------------------------------------------------------------------
(* Further properties of the watch handler (under SpecUpdates) *)

\* The events of the response that yield a record: a PUT or a DELETE of a key
\* under prefix_ + "/" that is not under the sync-lock prefix
YieldsRecord(e) ==
  /\ e.type \in {"PUT", "DELETE"}
  /\ HasPrefix(e.key, prefix_ \o <<"/">>)
  /\ ~HasPrefix(e.key, prefix_ \o meta_sync_lock_)

\* The record of such an event: the key without the namespace prefix and the
\* event's revision, with the value for a PUT
RecordOf(e) ==
  [op |-> IF e.type = "PUT" THEN "kPut" ELSE "kDel",
   key |-> SubSeq(e.key, Len(prefix_) + 1, Len(e.key)),
   value |-> IF e.type = "PUT" THEN e.value ELSE "",
   rev |-> e.mod_revision]

\* The records of the response's events, in the order of the events
RecordsOf(events) ==
  LET kept == SelectSeq(events, YieldsRecord)
  IN [i \in 1..Len(kept) |-> RecordOf(kept[i])]

\* C16: the list the handler posts for a batch holds exactly one record for
\* each PUT or DELETE event under prefix_ + "/" and outside the sync-lock
\* prefix, none for any other event, in the order of the events.
C16_OneRecordPerEvent ==
  \A c \in 1..Len(UpdatesPosted) :
    UpdatesPosted[c].ops = RecordsOf(updResp.events)

\* C16's case: a DELETE and then a PUT under the namespace have reached the
\* caller as a Del record followed by a Put record
C16_Witness ==
  /\ Len(updSeen) = 1
  /\ Len(updResp.events) = 2
  /\ updResp.events[1].type = "DELETE"
  /\ updResp.events[2].type = "PUT"
  /\ Len(updSeen[1].ops) = 2
  /\ updSeen[1].ops[1].op = "kDel"
  /\ updSeen[1].ops[2].op = "kPut"
  /\ updSeen[1].ops[1].rev < updSeen[1].ops[2].rev

\* A step of a call of Stop
StopStep == stopPc' # stopPc \/ stopped' # stopped

\* C17: unless Stop is called the daemon watch recovers. A watch that ends
\* without having been cancelled leaves a timer armed, and so does a start
\* that finds etcd unreachable; Stop, which cancels the watch, arms none; and
\* in a run without Stop in which the watch was started and etcd stays
\* reachable from some point on, the subscription is live from some point on.
C17_WatchRecovers ==
  /\ [][/\ (watcher_.live /\ ~watcher_'.live /\ ~stopped' /\ ~StopStep)
             => backoff_timer_'.armed
        /\ (dwPc = "idle" /\ dwPc' = "started" /\ ~etcdUp)
             => backoff_timer_'.armed
        /\ StopStep => backoff_timer_' = backoff_timer_]_vars
  /\ ([]~StopCalled /\ <>(dwPc = "started") /\ <>[]etcdUp)
       => <>[]watcher_.live

\* C17's case: the watch ended while etcd was unreachable, the timer fired
\* when etcd was back, and a second subscription is live
C17_Witness ==
  /\ ~StopCalled
  /\ outages >= 1
  /\ etcdUp
  /\ subsCreated = 2
  /\ watcher_.live
  /\ ~backoff_timer_.armed

----------------------------------------------------------------------------
(* Properties of the revision and of a failed acquisition (under SpecLock) *)

\* The thread's Release took the flag and its unlock succeeded
ReleasedOK(t) ==
  \E i \in Winners : history[i].who = t /\ history[i].status = StatusOK

\* C18: a caller's `rev` holds the unlock response's revision if its Release
\* was the first on the handle and the unlock succeeded, and otherwise (the
\* unlock failed, the call was a double release, or the call has not
\* returned) the value it held before.
C18_RevOnlyOnFirstSuccess ==
  \A t \in Threads :
    outRev[t] = IF ReleasedOK(t) THEN unlockResp.index ELSE CallerRev

\* C18's case: one thread's Release has unlocked and holds the revision,
\* another thread's Release was a double release and its `rev` is untouched
C18_Witness ==
  \E i, j \in 1..Len(history) :
    /\ ~history[i].old /\ history[i].status = StatusOK
    /\ history[i].who \in Threads
    /\ outRev[history[i].who] = unlockResp.index
    /\ unlockResp.index # CallerRev
    /\ history[j].old /\ history[j].who \in Threads
    /\ history[j].who # history[i].who
    /\ outRev[history[j].who] = CallerRev

\* C19: a failed lock request yields no releasable handle: after a failure
\* the callback gets the failure status, and no unlock request is ever issued
\* on behalf of the failed request, neither by Release nor by destruction.
C19_NoUnlockAfterFailedLock ==
  (lockPc \in {"posted", "held"} /\ ~is_ok(lockResp)) =>
    /\ \A i \in 1..Len(lockSeen) : lockSeen[i].status.code = "EtcdError"
    /\ unlockCalls = 0

----------------------------------------------------------------------------
(* The number of postings of each call (under SpecService) *)

\* Every callback requestLock has posted, run already or still queued
LockPosted ==
  lockSeen \o SelectSeq(metaCtx, LAMBDA c : c.callback = "lock")

\* The number of postings a call must have led to: one once its request to
\* etcd has completed (for commitUpdates: once a chunk has failed or the last
\* transaction has been answered), none before
Due(completed) == IF completed THEN 1 ELSE 0

\* C20: a call of requestAll, requestUpdates, commitUpdates or requestLock
\* whose request to etcd has completed has posted its callback exactly once,
\* whether the response was a success or an error and also when a chunk of a
\* commit other than the last failed; before that it has posted nothing.
C20_PostedExactlyOnce ==
  /\ Len(AllPosted) = Due(allPc = "handled")
  /\ Len(UpdatesPosted) = Due(updPc = "handled")
  /\ Len(CommitPosted) = Due(commitPc = "done")
  /\ Len(LockPosted) = Due(lockPc \in {"posted", "held"})

\* C20's case: the first chunk of a commit of more than one chunk failed; its
\* callback is queued behind that of a snapshot and no further transaction
\* was issued
C20_Witness ==
  /\ commitPc = "done"
  /\ Len(txns) = 1
  /\ FailedChunks = {1}
  /\ Len(changes) > ChunkSize
  /\ allPc = "handled"
  /\ Len(metaCtx) = 2
  /\ metaCtx[1].callback = "all"
  /\ Len(commitSeen) = 0
  /\ Len(CommitPosted) = 1

====
